---- MODULE Spec2Model ----
(***************************************************************************)
(* State-machine model of custom_components/notifier/__init__.py:          *)
(* NotifierManager, its event handlers and its send strategies.            *)
(*                                                                         *)
(* A handler is a coroutine: it is created when its event fires, and then  *)
(* runs from one suspension point to the next.  The only suspension points *)
(* are the awaited platform service calls (_call_notify_service), so one   *)
(* RunTask step is the code between two of them.                           *)
(***************************************************************************)
EXTENDS Integers, Sequences, FiniteSets, TLC

\* ------------------------------------------------------------------ bounds
MaxTasks == 3        \* handler coroutines created in one run (Spec)
MaxSubs == 3         \* watch subscriptions requested in one run (Spec)
FailMaxTasks == 2    \* handler coroutines created in one run (SpecFail)
QueueMaxTasks == 4   \* handler coroutines created in one run (SpecQueue)
StageMaxTasks == 2   \* handler coroutines created in one run (SpecStage)
SelMaxTasks == 1     \* handler coroutines created in one run (SpecSel)
RouteMaxTasks == 2   \* handler coroutines created in one run (SpecRoute)
StopMaxTasks == 2    \* handler coroutines created in one run (SpecStop)
TagMaxTasks == 3     \* handler coroutines created in one run (SpecTag)

\* ------------------------------------------------------- program constants
DEFAULT_THRESHOLD == 1000
MissingProx == 9999
FloatFallback == 9999

\* ------------------------------------------------------------ value domains
Persons == {1, 2}
LastPerson == CHOOSE p \in Persons : \A q \in Persons : q <= p
NoTag == ""
Tags == {"door", "gate"}
Entities == {"X", "Y"}
EntityStates == {"on", "off"}
SensorStates == {"on", "off"}
NoState == [k |-> "none", v |-> 0]
TextState == [k |-> "text", v |-> 0]
Num(n) == [k |-> "num", v |-> n]
HomeStates == {"none", "home", "not_home"}

VARIABLES
    threshold,   \* self.threshold
    persons,     \* self.persons: person -> [name, svc]
    sensor,      \* state of the home-occupancy sensor in the state store
    homeState,   \* person -> state of p["id"] in the state store
    proxState,   \* person -> state of p["proximity_id"] in the state store
    lifecycle,   \* "new" | "started" | "stopped"
    bus,         \* event types with a live listener of this manager
    tracker,     \* TRUE while the home-occupancy state tracker is live
    listeners,   \* self._listeners
    staged,      \* self.staged
    watchers,    \* self.watchers: tag -> subscription id
    subs,        \* live watch subscriptions [id, tag, entity, to]
    nextSub,     \* id of the next subscription async_track_state_change makes
    raised,      \* the remove() calls of the last async_stop that raised
    tasks        \* the handler coroutines, in creation order

config == <<threshold, persons>>
env == <<sensor, homeState, proxState>>
mgr == <<lifecycle, bus, tracker, listeners, staged, watchers, subs, nextSub,
         raised>>
vars == <<threshold, persons, sensor, homeState, proxState, lifecycle, bus,
          tracker, listeners, staged, watchers, subs, nextSub, raised, tasks>>

\* ------------------------------------------------------------ pure helpers
\* _safe_float: float(value), 9999 when the conversion raises
\* (SafeFloatZero: the same with 0 for 9999)
SafeFloatZero(r) == IF r.k = "num" THEN r.v ELSE 0
_safe_float(r) == IF r.k = "num" THEN r.v ELSE FloatFallback

\* home = state.state == "home" if state else False
Home(p) == homeState[p] = "home"

\* prox = self._safe_float(prox_state.state) if prox_state else 9999
Prox(p) == IF proxState[p].k = "none" THEN MissingProx ELSE _safe_float(proxState[p])

SetMin(S) == CHOOSE m \in S : \A x \in S : m <= x

\* min(proximities) of _send_to_nearest
MinProx == SetMin({Prox(p) : p \in Persons})

\* the condition of _send_to_present
\* (PresentWrong: the same with `and` for `or`)
PresentWrong(p) == Home(p) /\ Prox(p) <= threshold
PresentCond(p) == Home(p) \/ Prox(p) <= threshold

\* the condition of _send_to_absent
AbsentCond(p) == ~Home(p) \/ Prox(p) > threshold

\* the condition of _send_to_nearest, with minp read by the first loop
\* (NearestStrict: the same with `<` for `<=`)
NearestStrict(p, minp, thr) == Prox(p) < minp + thr
NearestAt(p, minp, thr) == Prox(p) <= minp + thr

NearestCond(p, minp) == NearestAt(p, minp, threshold)

\* action[len("send_to_"):] for an action that starts with "send_to_"
NamedActions == {"send_to_ann", "send_to_bob", "send_to_zoe"}
\* (NameOfFirst: the same resolving every name to "ann")
NameOfFirst(action) == "ann"
NameOf(action) ==
    CASE action = "send_to_ann" -> "ann"
      [] action = "send_to_bob" -> "bob"
      [] OTHER -> "zoe"

\* the branch of _handle_notifier_event an action takes
Route(action) ==
    CASE action = "" -> "none"
      [] action = "send_to_all" -> "all"
      [] action = "send_to_present" -> "present"
      [] action = "send_to_absent" -> "absent"
      [] action = "send_to_nearest" -> "nearest"
      [] action = "send_when_present" -> "when_present"
      [] action \in NamedActions -> "named"
      [] OTHER -> "none"

\* whether a strategy hands person p to _send_to_person
Selects(mode, data, minp, p) ==
    CASE mode = "all" -> TRUE
      [] mode = "clear" -> TRUE
      [] mode = "present" -> PresentCond(p)
      [] mode = "absent" -> AbsentCond(p)
      [] mode = "nearest" -> NearestCond(p, minp)
      [] mode = "named" -> persons[p].name = NameOf(data.action)
      [] OTHER -> FALSE

\* --------------------------------------------------------------- coroutines
\* A handler coroutine.  pc is where it is suspended: "start" (created, not
\* yet run), "send" (awaiting the service call for person i), "persist"
\* (awaiting the persistent_notification call), "done".  seen, sel, att,
\* fails, enq, notice, made and popped record what it has done so far;
\* snap is the set of persons the 'present' rule selected when the request
\* was staged (a notify coroutine) or dequeued (a drain coroutine).
PresentNow == {p \in Persons : PresentCond(p)}

NewTask(kind, data) ==
    [kind |-> kind, data |-> data, pc |-> "start", mode |-> "none", minp |-> 0,
     i |-> 0, seen |-> {}, sel |-> {}, att |-> [p \in Persons |-> 0],
     fails |-> {}, enq |-> FALSE, notice |-> 0, noticeFailed |-> FALSE,
     made |-> {}, popped |-> 0,
     snap |-> IF kind = "drain" THEN PresentNow ELSE {}]

\* event.data of NOTIFIER_DISCARD / mobile_app_notification_action, and the
\* tag an "until" watcher was made for
TagData(tag) ==
    [rid |-> 0, action |-> "", tag |-> tag, persistent |-> FALSE, until |-> <<>>]

ClearKinds == {"discard", "ack", "until"}

\* for p in self.persons: if <condition>: await self._send_to_person(data, p)
\* run from person `from` up to the first service call, which suspends the
\* coroutine (_send_to_person returns at once for a person without a
\* notification_service), or to the end of the loop.
\* (SendLoopAbort: the same where a failed service call ends the loop)
SendLoopAbort(t, mode, minp, from) ==
    LET hit == {j \in Persons : j >= from /\ Selects(mode, t.data, minp, j)
                                          /\ persons[j].svc}
        stop == IF hit = {} \/ t.fails # {} THEN LastPerson ELSE SetMin(hit)
        scanned == {k \in Persons : from <= k /\ k <= stop}
        t1 == [t EXCEPT !.mode = mode, !.minp = minp,
                        !.seen = @ \cup scanned,
                        !.sel = @ \cup {k \in scanned : Selects(mode, t.data, minp, k)}]
    IN  IF hit = {} \/ t.fails # {}
        THEN [t1 EXCEPT !.pc = "after"]
        ELSE [t1 EXCEPT !.pc = "send", !.i = stop, !.att[stop] = @ + 1]

SendLoop(t, mode, minp, from) ==
    LET hit == {j \in Persons : j >= from /\ Selects(mode, t.data, minp, j)
                                          /\ persons[j].svc}
        stop == IF hit = {} THEN LastPerson ELSE SetMin(hit)
        scanned == {k \in Persons : from <= k /\ k <= stop}
        t1 == [t EXCEPT !.mode = mode, !.minp = minp,
                        !.seen = @ \cup scanned,
                        !.sel = @ \cup {k \in scanned : Selects(mode, t.data, minp, k)}]
    IN  IF hit = {}
        THEN [t1 EXCEPT !.pc = "after"]
        ELSE [t1 EXCEPT !.pc = "send", !.i = stop, !.att[stop] = @ + 1]

\* _send_when_present: whether the request goes to the staging queue
\* (StagesAlways: the same without the `else`)
StagesAlways(t) ==
    /\ t.kind = "notify" /\ t.pc = "start"
    /\ Route(t.data.action) = "when_present"

StagesNow(t) ==
    /\ t.kind = "notify" /\ t.pc = "start"
    /\ Route(t.data.action) = "when_present"
    /\ sensor # "on"

\* The first part of a step: from where the coroutine is suspended to its
\* next service call of a send loop, or past the loop (pc "after"), or to
\* the end of a handler that has nothing to do (pc "done").
Advance(t, ok) ==
    CASE t.pc = "send" ->
            SendLoop([t EXCEPT !.fails = IF ok THEN @ ELSE @ \cup {t.i}],
                     t.mode, t.minp, t.i + 1)
      [] t.pc = "persist" ->
            [t EXCEPT !.pc = "until", !.noticeFailed = ~ok]
      [] t.pc = "start" /\ t.kind = "drain" -> SendLoop(t, "present", 0, 1)
      [] t.pc = "start" /\ t.kind \in ClearKinds -> SendLoop(t, "clear", 0, 1)
      [] t.pc = "start" /\ t.kind = "notify" ->
            LET r == Route(t.data.action) IN
            CASE r = "none" -> [t EXCEPT !.pc = "after"]
              [] r = "when_present" ->
                    IF sensor = "on" THEN SendLoop(t, "present", 0, 1)
                    ELSE [t EXCEPT !.pc = "after", !.enq = TRUE, !.snap = PresentNow]
              [] r = "nearest" -> SendLoop(t, "nearest", MinProx, 1)
              [] OTHER -> SendLoop(t, r, 0, 1)
      [] OTHER -> t

\* if data.get("persistent"): await self._call_notify_service("persistent_notification", ...)
\* (PersistUnlessStaged: the same skipped for a request that was staged)
PersistUnlessStaged(t) ==
    IF t.pc = "after" /\ t.kind = "notify"
    THEN IF t.data.persistent /\ ~t.enq
         THEN [t EXCEPT !.pc = "persist", !.notice = @ + 1]
         ELSE [t EXCEPT !.pc = "until"]
    ELSE t

Persist(t) ==
    IF t.pc = "after" /\ t.kind = "notify"
    THEN IF t.data.persistent
         THEN [t EXCEPT !.pc = "persist", !.notice = @ + 1]
         ELSE [t EXCEPT !.pc = "until"]
    ELSE t

\* if "until" in data and tag: one async_track_state_change per watcher
Registers(t) == t.pc = "until" /\ t.data.tag # NoTag /\ Len(t.data.until) > 0

NewSubs(t) ==
    {[id |-> nextSub + k - 1, tag |-> t.data.tag,
      entity |-> t.data.until[k].entity, to |-> t.data.until[k].to] :
        k \in 1..Len(t.data.until)}

\* self.watchers[tag] = remove, once per watcher: the last one stays
RegisterWatchers(t) ==
    [g \in DOMAIN watchers \cup {t.data.tag} |->
        IF g = t.data.tag THEN nextSub + Len(t.data.until) - 1 ELSE watchers[g]]

\* remove = self.watchers.pop(tag, None); if remove: remove()
Pops(t) == t.pc = "after" /\ t.kind \in ClearKinds

Popped(tag) == IF tag \in DOMAIN watchers THEN watchers[tag] ELSE 0

\* (PopKeepsSub: the same without the call of remove())
PopKeepsSub(tag) == subs
PopReleases(tag) ==
    IF tag \in DOMAIN watchers
    THEN {s \in subs : s.id # watchers[tag]}
    ELSE subs

\* (PopWatcherAll: the same with self.watchers.clear() for pop(tag))
PopWatcherAll(tag) == [g \in {} |-> 0]
PopWatcher(tag) == [g \in DOMAIN watchers \ {tag} |-> watchers[g]]

\* One scheduling turn of coroutine ti: it resumes (with the outcome ok of
\* the service call it was awaiting: FALSE is an exception, which
\* _call_notify_service logs and swallows) and runs to its next service
\* call or to its end.
RunTask(ti, ok) ==
    LET t == tasks[ti]
        a == Persist(Advance(t, ok))
        b == CASE Registers(a) -> [a EXCEPT !.pc = "done",
                                            !.made = {s.id : s \in NewSubs(a)}]
               [] Pops(a) -> [a EXCEPT !.pc = "done", !.popped = Popped(a.data.tag)]
               [] a.pc \in {"until", "after"} -> [a EXCEPT !.pc = "done"]
               [] OTHER -> a
    IN  /\ t.pc # "done"
        /\ (t.pc = "start" => ok)
        /\ tasks' = [tasks EXCEPT ![ti] = b]
        /\ staged' = IF StagesNow(t) THEN Append(staged, t.data) ELSE staged
        /\ IF Registers(a)
           THEN /\ subs' = subs \cup NewSubs(a)
                /\ watchers' = RegisterWatchers(a)
                /\ nextSub' = nextSub + Len(a.data.until)
           ELSE IF Pops(a)
           THEN /\ subs' = PopReleases(a.data.tag)
                /\ watchers' = PopWatcher(a.data.tag)
                /\ UNCHANGED nextSub
           ELSE UNCHANGED <<subs, watchers, nextSub>>
        /\ UNCHANGED <<config, env, lifecycle, bus, tracker, listeners, raised>>

\* ------------------------------------------------------------------ events
BusEvents == {"NOTIFIER", "NOTIFIER_DISCARD", "mobile_app_notification_action"}

\* watch subscriptions the created coroutines will still ask for
RECURSIVE PendingSubs(_)
PendingSubs(ts) ==
    IF ts = <<>> THEN 0
    ELSE (IF Head(ts).kind = "notify" /\ Head(ts).pc # "done"
             /\ Head(ts).data.tag # NoTag
          THEN Len(Head(ts).data.until) ELSE 0) + PendingSubs(Tail(ts))

\* async_start
Start ==
    /\ lifecycle = "new"
    /\ lifecycle' = "started"
    /\ bus' = BusEvents
    /\ tracker' = TRUE
    /\ listeners' = Append(listeners, "home_tracker")
    /\ UNCHANGED <<config, env, staged, watchers, subs, nextSub, raised, tasks>>

\* async_stop: every remove() of self._listeners and of self.watchers,
\* each inside try/except, then clear().  failL / failW are the remove()
\* calls that raise (of the home tracker, of the registered watches);
\* keptL / keptW are the ones among them that raised before they released
\* their subscription.
StopWatchers == [g \in {} |-> 0]

StopSubs == {s \in subs : \A g \in DOMAIN watchers : watchers[g] # s.id}

\* (AfterStopAbort: the same without the try/except, where the first
\* remove() that raises ends async_stop)
AfterStopAbort(failL, failW, keptW) ==
    IF failL \/ failW # {} THEN subs ELSE StopSubs

AfterStop(failL, failW, keptW) ==
    StopSubs \cup {s \in subs : s.id \in keptW}

StopWith(failL, keptL, failW, keptW) ==
    /\ lifecycle # "new"
    /\ failL => listeners # <<>>
    /\ keptL => failL
    /\ failW \subseteq {watchers[g] : g \in DOMAIN watchers}
    /\ keptW \subseteq failW
    /\ lifecycle' = "stopped"
    /\ tracker' = (tracker /\ (listeners = <<>> \/ keptL))
    /\ listeners' = <<>>
    /\ subs' = AfterStop(failL, failW, keptW)
    /\ watchers' = StopWatchers
    /\ raised' = [tracker |-> failL, watch |-> failW]
    /\ UNCHANGED <<config, env, bus, staged, nextSub, tasks>>

\* async_stop where no remove() raises
Stop == StopWith(FALSE, FALSE, {}, {})

\* the bus fires NOTIFIER: _handle_notifier_event(event) is scheduled
NotifyEvent(req, maxTasks, maxSubs) ==
    /\ "NOTIFIER" \in bus
    /\ Len(tasks) < maxTasks
    /\ (nextSub - 1) + PendingSubs(tasks)
         + (IF req.tag # NoTag THEN Len(req.until) ELSE 0) <= maxSubs
    /\ tasks' = Append(tasks, NewTask("notify", [req EXCEPT !.rid = Len(tasks) + 1]))
    /\ UNCHANGED <<config, env, mgr>>

\* the bus fires NOTIFIER_DISCARD: _handle_discard_event(event), which
\* awaits _clear_notifications(tag) if the event carries a tag and does
\* nothing otherwise
DiscardEvent(tag, maxTasks) ==
    /\ "NOTIFIER_DISCARD" \in bus
    /\ Len(tasks) < maxTasks
    /\ tasks' = IF tag # NoTag THEN Append(tasks, NewTask("discard", TagData(tag)))
                ELSE tasks
    /\ UNCHANGED <<config, env, mgr>>

\* the bus fires mobile_app_notification_action: _handle_mobile_action
\* tag = data.get("tag") or data.get("action_data", {}).get("tag")
AckTag(tag, nested) == IF tag # NoTag THEN tag ELSE nested

MobileAction(tag, nested, maxTasks) ==
    /\ "mobile_app_notification_action" \in bus
    /\ Len(tasks) < maxTasks
    /\ tasks' = IF AckTag(tag, nested) # NoTag
                THEN Append(tasks, NewTask("ack", TagData(AckTag(tag, nested))))
                ELSE tasks
    /\ UNCHANGED <<config, env, mgr>>

\* The home-occupancy sensor changes state; while the tracker is live the
\* platform calls _home_state_changed(entity, old, new), which is a
\* @callback: it runs to its end in the same turn.
\* (DrainKeepsQueue: the same reading self.staged[0] without pop(0))
DrainKeepsQueue(live, new) == staged
DrainedQueue(live, new) ==
    IF live /\ new = "on" THEN <<>> ELSE staged

DrainTasks(live, new) ==
    IF live /\ new = "on"
    THEN [k \in 1..Len(staged) |-> NewTask("drain", staged[k])]
    ELSE <<>>

HomeStateChanged(new, maxTasks) ==
    /\ Len(tasks) + Len(DrainTasks(tracker, new)) <= maxTasks
    /\ sensor' = new
    /\ staged' = DrainedQueue(tracker, new)
    /\ tasks' = tasks \o DrainTasks(tracker, new)
    /\ UNCHANGED <<config, homeState, proxState, lifecycle, bus, tracker,
                   listeners, watchers, subs, nextSub, raised>>

\* a person's device tracker or proximity sensor changes state
PresenceChange(p, h, r) ==
    /\ <<h, r>> # <<homeState[p], proxState[p]>>
    /\ homeState' = [homeState EXCEPT ![p] = h]
    /\ proxState' = [proxState EXCEPT ![p] = r]
    /\ UNCHANGED <<config, sensor, mgr, tasks>>

\* A watched entity changes to state s: every live subscription made with
\* to_state = s on that entity runs its lambda, which creates one
\* _until_callback coroutine for the tag it was made for.
Fired(e, s) == {w \in subs : w.entity = e /\ w.to = s}

RECURSIVE UntilTasks(_)
UntilTasks(ws) ==
    IF ws = {} THEN <<>>
    ELSE LET w == CHOOSE x \in ws : \A y \in ws : x.id <= y.id
         IN  <<NewTask("until", TagData(w.tag))>> \o UntilTasks(ws \ {w})

EntityChange(e, s, maxTasks) ==
    /\ Fired(e, s) # {}
    /\ Len(tasks) + Cardinality(Fired(e, s)) <= maxTasks
    /\ tasks' = tasks \o UntilTasks(Fired(e, s))
    /\ UNCHANGED <<config, env, mgr>>

\* ---------------------------------------------------------- specifications
Request(action, tag, persistent, until) ==
    [rid |-> 0, action |-> action, tag |-> tag, persistent |-> persistent,
     until |-> until]

Watch(e, s) == [entity |-> e, to |-> s]

InitManager ==
    /\ lifecycle = "new"
    /\ bus = {}
    /\ tracker = FALSE
    /\ listeners = <<>>
    /\ staged = <<>>
    /\ watchers = [g \in {} |-> 0]
    /\ subs = {}
    /\ nextSub = 1
    /\ raised = [tracker |-> FALSE, watch |-> {}]
    /\ tasks = <<>>

ConfigOf(thr, chan) ==
    /\ threshold = thr
    /\ persons = [p \in Persons |-> [name |-> IF p = 1 THEN "ann" ELSE "bob",
                                     svc |-> chan[p]]]

\* Spec: the life of the manager and of its watches.  Tagged requests with
\* "until" conditions, discard and acknowledgement events, transitions of
\* the watched entities, start and stop.
Requests ==
    {Request("send_to_all", "door", FALSE, <<Watch("X", "off")>>),
     Request("send_to_all", "door", FALSE, <<Watch("X", "off"), Watch("Y", "on")>>)}

InitHome ==
    /\ sensor = "off"
    /\ homeState = [p \in Persons |-> "home"]
    /\ proxState = [p \in Persons |-> Num(300)]

Init ==
    /\ \E chan \in {<<TRUE, TRUE>>, <<TRUE, FALSE>>} : ConfigOf(500, chan)
    /\ InitHome
    /\ InitManager

Next ==
    \/ Start
    \/ Stop
    \/ \E req \in Requests : NotifyEvent(req, MaxTasks, MaxSubs)
    \/ \E tag \in {"door", NoTag} : DiscardEvent(tag, MaxTasks)
    \/ \E tag \in {"door", NoTag}, nested \in {"door", NoTag} :
          MobileAction(tag, nested, MaxTasks)
    \/ \E e \in Entities, s \in EntityStates : EntityChange(e, s, MaxTasks)
    \/ \E ti \in 1..Len(tasks) : RunTask(ti, TRUE)

Spec == Init /\ [][Next]_vars

\* SpecFail: failing service calls.  A request of each kind of handler step
\* (send loop, persistent notice, watch registration) and a discard, where
\* every awaited service call may raise.
FailRequests ==
    {Request("send_to_all", "door", TRUE, <<Watch("X", "off")>>),
     Request("send_to_nearest", "door", FALSE, <<Watch("X", "off")>>),
     Request("send_to_present", NoTag, TRUE, <<>>)}

InitFail ==
    /\ \E chan \in {<<TRUE, TRUE>>, <<TRUE, FALSE>>} : ConfigOf(500, chan)
    /\ InitHome
    /\ InitManager

NextFail ==
    \/ Start
    \/ \E req \in FailRequests : NotifyEvent(req, FailMaxTasks, MaxSubs)
    \/ \E tag \in {"door"} : DiscardEvent(tag, FailMaxTasks)
    \/ \E ti \in 1..Len(tasks), ok \in BOOLEAN : RunTask(ti, ok)

SpecFail == InitFail /\ [][NextFail]_vars

\* SpecQueue: the staging queue.  send_when_present requests, transitions
\* of the home-occupancy sensor, start and stop; everybody is at home.
StageRequests == {Request("send_when_present", NoTag, FALSE, <<>>)}

InitQueue ==
    /\ \E chan \in {<<TRUE, TRUE>>, <<TRUE, FALSE>>} : ConfigOf(500, chan)
    /\ InitHome
    /\ InitManager

NextQueue ==
    \/ Start
    \/ Stop
    \/ \E req \in StageRequests : NotifyEvent(req, QueueMaxTasks, 0)
    \/ \E new \in SensorStates : HomeStateChanged(new, QueueMaxTasks)
    \/ \E ti \in 1..Len(tasks) : RunTask(ti, TRUE)

SpecQueue == InitQueue /\ [][NextQueue]_vars

\* SpecStage: staged delivery while persons come and go.  One
\* send_when_present request, transitions of the home-occupancy sensor and
\* changes of the persons' presence readings at any moment.
StagePresence ==
    {<<"not_home", NoState>>, <<"home", NoState>>, <<"not_home", Num(300)>>}

InitStage ==
    /\ \E chan \in {<<TRUE, TRUE>>, <<TRUE, FALSE>>} : ConfigOf(500, chan)
    /\ sensor = "off"
    /\ homeState = [p \in Persons |-> "not_home"]
    /\ proxState = [p \in Persons |-> NoState]
    /\ InitManager

NextStage ==
    \/ Start
    \/ \E req \in StageRequests : NotifyEvent(req, StageMaxTasks, 0)
    \/ \E new \in SensorStates : HomeStateChanged(new, StageMaxTasks)
    \/ \E p \in Persons, hr \in StagePresence : PresenceChange(p, hr[1], hr[2])
    \/ \E ti \in 1..Len(tasks) : RunTask(ti, TRUE)

SpecStage == InitStage /\ [][NextStage]_vars

\* SpecSel: the selection rules.  Requests of every action, under every
\* threshold, channel configuration and presence reading of the domains.
SelThresholds == {-1, 0, DEFAULT_THRESHOLD, 9999}

SelActions ==
    {"send_to_all", "send_to_present", "send_to_absent", "send_to_nearest",
     "send_to_ann", "send_to_zoe", ""}

SelRequests == {Request(a, NoTag, FALSE, <<>>) : a \in SelActions}

SelProx == {NoState, TextState, Num(0), Num(300), Num(9999)}

InitSel ==
    /\ \E thr \in SelThresholds, chan \in [Persons -> BOOLEAN] : ConfigOf(thr, chan)
    /\ sensor = "off"
    /\ homeState \in [Persons -> HomeStates]
    /\ proxState \in [Persons -> SelProx]
    /\ InitManager

NextSel ==
    \/ Start
    \/ \E req \in SelRequests : NotifyEvent(req, SelMaxTasks, 0)
    \/ \E ti \in 1..Len(tasks) : RunTask(ti, TRUE)

SpecSel == InitSel /\ [][NextSel]_vars

\* SpecRoute: the routing of a request.  Persistent requests of every
\* action, requests without the persistent flag, and a request without an
\* action that carries a tag and a watch condition; transitions of the
\* home-occupancy sensor; persons with and without a channel, with distinct
\* names and with the same name.
ConfigNamed(thr, chan, names) ==
    /\ threshold = thr
    /\ persons = [p \in Persons |-> [name |-> names[p], svc |-> chan[p]]]

RouteActions ==
    {"send_to_all", "send_to_present", "send_to_absent", "send_to_nearest",
     "send_when_present", "send_to_ann", "send_to_zoe", ""}

PlainActions == {"send_when_present", "send_to_ann", "send_to_zoe", ""}

RouteRequests ==
    {Request(a, NoTag, TRUE, <<>>) : a \in RouteActions}
        \cup {Request(a, NoTag, FALSE, <<>>) : a \in PlainActions}
        \cup {Request("", "door", TRUE, <<Watch("X", "off")>>)}

RouteConfigs ==
    {<<<<TRUE, TRUE>>, <<"ann", "bob">>>>, <<<<FALSE, TRUE>>, <<"ann", "bob">>>>,
     <<<<TRUE, TRUE>>, <<"ann", "ann">>>>}

InitRoute ==
    /\ \E c \in RouteConfigs : ConfigNamed(500, c[1], c[2])
    /\ InitHome
    /\ InitManager

NextRoute ==
    \/ Start
    \/ \E req \in RouteRequests : NotifyEvent(req, RouteMaxTasks, MaxSubs)
    \/ \E new \in SensorStates : HomeStateChanged(new, RouteMaxTasks)
    \/ \E ti \in 1..Len(tasks) : RunTask(ti, TRUE)

SpecRoute == InitRoute /\ [][NextRoute]_vars

\* SpecStop: stop() with failing unsubscribe calls.  Tagged requests that
\* register watches, start, and stop where any remove() may raise, before
\* or after it released its subscription.
InitStop ==
    /\ \E chan \in {<<TRUE, TRUE>>, <<TRUE, FALSE>>} : ConfigOf(500, chan)
    /\ InitHome
    /\ InitManager

NextStop ==
    \/ Start
    \/ \E failL \in BOOLEAN, keptL \in BOOLEAN :
          \E failW \in SUBSET {watchers[g] : g \in DOMAIN watchers} :
             \E keptW \in SUBSET failW : StopWith(failL, keptL, failW, keptW)
    \/ \E req \in Requests : NotifyEvent(req, StopMaxTasks, MaxSubs)
    \/ \E ti \in 1..Len(tasks) : RunTask(ti, TRUE)

SpecStop == InitStop /\ [][NextStop]_vars

\* SpecTag: tags in the staging queue and in the registry.  A staged
\* request and an immediate request with different tags and watch
\* conditions, discard and acknowledgement events, transitions of the
\* watched entities and of the home-occupancy sensor.
TagRequests ==
    {Request("send_when_present", "door", FALSE, <<Watch("X", "off")>>),
     Request("send_to_all", "gate", FALSE, <<Watch("Y", "on")>>)}

InitTag ==
    /\ \E chan \in {<<TRUE, TRUE>>, <<TRUE, FALSE>>} : ConfigOf(500, chan)
    /\ InitHome
    /\ InitManager

NextTag ==
    \/ Start
    \/ \E req \in TagRequests : NotifyEvent(req, TagMaxTasks, MaxSubs)
    \/ \E tag \in {"door"} : DiscardEvent(tag, TagMaxTasks)
    \/ \E tag \in {"door", NoTag}, nested \in {"door", NoTag} :
          MobileAction(tag, nested, TagMaxTasks)
    \/ \E e \in Entities, s \in EntityStates : EntityChange(e, s, TagMaxTasks)
    \/ \E new \in SensorStates : HomeStateChanged(new, TagMaxTasks)
    \/ \E ti \in 1..Len(tasks) : RunTask(ti, TRUE)

SpecTag == InitTag /\ [][NextTag]_vars

\* ------------------------------------------------------------------ claims
TaskIds == 1..Len(tasks)
IsDone(ti) == tasks[ti].pc = "done"
Dispatched(ti) == {p \in Persons : tasks[ti].att[p] >= 1}

\* the proximity of a person as section 4.2 of the specification reads it:
\* the numeric state, a large sentinel when it is missing or not a number
ProximityOf(p) == IF proxState[p].k = "num" THEN proxState[p].v ELSE 9999

\* the 'present' rule: home == true OR proximity <= threshold
PresentRule(p) == homeState[p] = "home" \/ ProximityOf(p) <= threshold

\* occurrences of request r in the staging queue, and coroutines that hand
\* it to _send_to_present after a drain
InQueue(r) == Cardinality({k \in 1..Len(staged) : staged[k].rid = r})
Drains(r) == Cardinality({ti \in TaskIds : tasks[ti].kind = "drain"
                                           /\ tasks[ti].data.rid = r})

\* a step of _home_state_changed that dequeues
DrainStep ==
    /\ Len(tasks') > Len(tasks)
    /\ tasks'[Len(tasks')].kind = "drain"

\* C1: every request placed in the staging queue is either still in the
\* queue, once, and not handed to _send_to_present, or out of the queue and
\* handed to it by exactly one drain coroutine; a drain empties the queue
\* and hands over exactly the entries it held, in order.
C1_StagedOnce ==
    \A ti \in TaskIds :
        (tasks[ti].kind = "notify" /\ tasks[ti].enq) =>
            InQueue(tasks[ti].data.rid) + Drains(tasks[ti].data.rid) = 1

C1_DrainEmpties ==
    DrainStep =>
        /\ staged' = <<>>
        /\ Len(tasks') = Len(tasks) + Len(staged)
        /\ \A k \in 1..Len(staged) : tasks'[Len(tasks) + k].data = staged[k]

C1_DrainExactlyOnce == [](C1_StagedOnce) /\ [][C1_DrainEmpties]_vars

\* C1 witness: a request staged while the dispatch of an earlier drain was
\* still in progress has been dequeued by a later drain.
C1_Witness ==
    \E d1 \in TaskIds, n \in TaskIds, d2 \in TaskIds :
        /\ d1 < n /\ n < d2
        /\ tasks[d1].kind = "drain" /\ tasks[d1].pc = "send"
        /\ tasks[n].kind = "notify" /\ tasks[n].enq
        /\ tasks[d2].kind = "drain" /\ tasks[d2].data.rid = n
        /\ staged = <<>>

\* C2: send_to_absent selects a person if and only if home is false and
\* proximity > threshold, the negation of the 'present' rule.
C2_AbsentIsNegation ==
    \A ti \in TaskIds :
        tasks[ti].mode = "absent" =>
            \A p \in tasks[ti].seen :
                (p \in tasks[ti].sel) <=>
                    (homeState[p] # "home" /\ ProximityOf(p) > threshold)

\* C3 as stated: send_to_present dispatches to a person with proximity
\* data if and only if the person is home or within the threshold.
C3_DispatchIffPresent ==
    \A ti \in TaskIds :
        tasks[ti].mode = "present" =>
            \A p \in tasks[ti].seen :
                proxState[p].k = "num" =>
                    (tasks[ti].att[p] = 1 <=> PresentRule(p))

\* C3 amended: send_to_present dispatches to a person with proximity data
\* if and only if the person has a notification channel and is home or
\* within the threshold, and hands every person the rule selects to
\* _send_to_person; when the rule selects nobody there is no dispatch call.
C3_DispatchIffPresentWithChannel ==
    \A ti \in TaskIds :
        tasks[ti].mode = "present" =>
            /\ \A p \in tasks[ti].seen :
                  proxState[p].k = "num" =>
                      /\ tasks[ti].att[p] = 1 <=> (persons[p].svc /\ PresentRule(p))
                      /\ p \in tasks[ti].sel <=> PresentRule(p)
            /\ (\A p \in Persons : ~PresentRule(p)) => Dispatched(ti) = {}
            /\ IsDone(ti) => tasks[ti].seen = Persons

\* C3 witness: a finished send_to_present request that went to a person who
\* is away but within the threshold and not to a person with a channel who
\* is away and beyond it.
C3_Witness ==
    \E ti \in TaskIds, p \in Persons, q \in Persons :
        /\ IsDone(ti) /\ tasks[ti].mode = "present"
        /\ homeState[p] # "home" /\ proxState[p].k = "num"
        /\ proxState[p].v <= threshold /\ tasks[ti].att[p] = 1
        /\ persons[q].svc /\ homeState[q] # "home" /\ proxState[q].k = "num"
        /\ proxState[q].v > threshold /\ tasks[ti].att[q] = 0

\* C10 as stated: send_to_nearest dispatches to every person whose
\* proximity is the minimum.
MinProximity == SetMin({ProximityOf(p) : p \in Persons})

C10_NearestDispatched ==
    \A ti \in TaskIds :
        (IsDone(ti) /\ tasks[ti].mode = "nearest") =>
            \A p \in Persons :
                ProximityOf(p) = MinProximity => tasks[ti].att[p] = 1

\* C10 amended: for a threshold >= 0 and readings that stay as they are
\* while the request is handled, send_to_nearest selects every person whose
\* proximity is the minimum and dispatches to each of them that has a
\* notification channel; and the set it selects contains the set selected
\* under any smaller threshold and is contained in the set selected under
\* any larger one, whatever the sign of the thresholds.
NearestSet(thr) == {p \in Persons : NearestAt(p, MinProx, thr)}

ThresholdDomain == {-500, -1, 0, 1, 300, 500, DEFAULT_THRESHOLD, 9999, 10000}

C10_NearestSelection ==
    \A ti \in TaskIds :
        (IsDone(ti) /\ tasks[ti].mode = "nearest") =>
            /\ \A p \in Persons :
                  (threshold >= 0 /\ ProximityOf(p) = MinProximity) =>
                      /\ p \in tasks[ti].sel
                      /\ tasks[ti].att[p] = IF persons[p].svc THEN 1 ELSE 0
            /\ \A t \in ThresholdDomain :
                  /\ t <= threshold => NearestSet(t) \subseteq tasks[ti].sel
                  /\ threshold <= t => tasks[ti].sel \subseteq NearestSet(t)

\* C10 witness: a finished send_to_nearest request, threshold 0, that went
\* to the nearest person and not to the other one, who has a channel.
C10_Witness ==
    \E ti \in TaskIds, p \in Persons, q \in Persons :
        /\ IsDone(ti) /\ tasks[ti].mode = "nearest"
        /\ threshold = 0
        /\ ProximityOf(p) = MinProximity /\ tasks[ti].att[p] = 1
        /\ persons[q].svc /\ ProximityOf(q) > MinProximity /\ tasks[ti].att[q] = 0

\* C4: the live watch subscriptions are exactly the ones the registry
\* holds, one per tag.
LiveIds == {w.id : w \in subs}
RegistryIds == {watchers[g] : g \in DOMAIN watchers}

C4_RegistryIsLive ==
    /\ LiveIds = RegistryIds
    /\ \A w \in subs : w.tag \in DOMAIN watchers /\ watchers[w.tag] = w.id

\* C5: after stop() no subscription made by start() and no watch
\* subscription is live.
C5_StopReleasesAll ==
    lifecycle = "stopped" => (bus = {} /\ ~tracker /\ subs = {})

\* C6: when the handler of a discard or acknowledgement event for a tag has
\* finished, no watch subscription made for that tag is live, so that a
\* later transition of the watched entity starts no clear for the tag.
ClearFinishes(ti) ==
    /\ tasks[ti].kind \in ClearKinds
    /\ tasks[ti].data.tag # NoTag
    /\ tasks[ti].pc # "done"
    /\ tasks'[ti].pc = "done"

C6_DiscardReleasesWatch ==
    [][\A ti \in TaskIds :
          (ClearFinishes(ti) /\ tasks[ti].kind \in {"discard", "ack"}) =>
              \A w \in subs' : w.tag # tasks[ti].data.tag]_vars

\* C8: _clear_notifications(tag) ends with the tag out of the registry and
\* the subscription the registry held for it released, whatever the
\* outcomes of its clear dispatches.
C8_ClearRemovesWatch ==
    [][\A ti \in TaskIds :
          ClearFinishes(ti) =>
              /\ tasks[ti].data.tag \notin DOMAIN watchers'
              /\ tasks[ti].data.tag \in DOMAIN watchers =>
                    /\ watchers[tasks[ti].data.tag] \notin {w.id : w \in subs'}
                    /\ tasks'[ti].popped = watchers[tasks[ti].data.tag]]_vars

\* C8 witness: a clear for a watched tag has finished, every one of its
\* dispatch calls failed, and the watch it found is neither registered nor
\* live.
C8_Witness ==
    \E ti \in TaskIds :
        /\ tasks[ti].kind \in ClearKinds /\ IsDone(ti)
        /\ \E p \in Persons : persons[p].svc
        /\ tasks[ti].fails = {p \in Persons : persons[p].svc}
        /\ tasks[ti].popped # 0
        /\ tasks[ti].popped \notin LiveIds
        /\ tasks[ti].data.tag \notin DOMAIN watchers

\* C9: a failing dispatch aborts nothing.  No person ever gets a second
\* attempt, and a finished handler has examined every person, made exactly
\* one attempt for each selected person with a channel and none for the
\* others, delivered the persistent notice if asked to, registered its
\* watches if it carries a tag and conditions, and, for a clear, released
\* the watch it found.
Expected(ti) ==
    [p \in Persons |-> IF p \in tasks[ti].sel /\ persons[p].svc THEN 1 ELSE 0]

C9_FailureAbortsNothing ==
    \A ti \in TaskIds :
        /\ \A p \in Persons : tasks[ti].att[p] <= 1
        /\ IsDone(ti) =>
              /\ tasks[ti].att = Expected(ti)
              /\ tasks[ti].mode # "none" => tasks[ti].seen = Persons
              /\ tasks[ti].mode \in {"all", "clear"} => tasks[ti].sel = Persons
              /\ tasks[ti].fails \subseteq Dispatched(ti)
              /\ tasks[ti].kind = "notify" =>
                    /\ tasks[ti].notice = IF tasks[ti].data.persistent THEN 1 ELSE 0
                    /\ (tasks[ti].data.tag # NoTag /\ tasks[ti].data.until # <<>>)
                          => Cardinality(tasks[ti].made) = Len(tasks[ti].data.until)
              /\ (tasks[ti].kind \in ClearKinds /\ tasks[ti].popped # 0) =>
                    tasks[ti].popped \notin LiveIds

\* C9 witness: a finished request whose first dispatch failed: the second
\* person still got its attempt, the persistent notice (which failed too)
\* was delivered and the watch was registered.
C9_Witness ==
    \E ti \in TaskIds :
        /\ IsDone(ti) /\ tasks[ti].kind = "notify"
        /\ tasks[ti].fails = Persons /\ tasks[ti].noticeFailed
        /\ \A p \in Persons : tasks[ti].att[p] = 1
        /\ tasks[ti].notice = 1
        /\ tasks[ti].made # {} /\ tasks[ti].made \subseteq LiveIds

\* C7 as stated: a drained request is dispatched to exactly the persons the
\* 'present' rule selected under the readings at the moment of the drain
\* (read here in the claim's favour: among the persons that have a
\* notification channel).
C7_DrainTimePresence ==
    \A ti \in TaskIds :
        (tasks[ti].kind = "drain" /\ IsDone(ti)) =>
            Dispatched(ti) = {p \in tasks[ti].snap : persons[p].svc}

\* C7 amended: a send_when_present request handled while the sensor is not
\* 'on' causes no dispatch and is appended to the staging queue; a
\* transition of the sensor to 'on' dequeues it and hands it to
\* _send_to_present, which dispatches to exactly the persons that have a
\* notification channel and satisfy the 'present' rule under the readings
\* at the moment it examines each of them (at or after the drain, not at
\* enqueue time); a request handled while the sensor is 'on' is dispatched
\* by the same rule at once and is not enqueued.
NoAttempt == [p \in Persons |-> 0]

C7_Enqueue(ti) ==
    (tasks[ti].kind = "notify" /\ tasks[ti].pc = "start"
       /\ tasks[ti].data.action = "send_when_present") =>
        IF sensor = "on"
        THEN /\ staged' = staged
             /\ ~tasks'[ti].enq
             /\ tasks'[ti].seen # {}
        ELSE /\ staged' = Append(staged, tasks[ti].data)
             /\ tasks'[ti].enq
             /\ tasks'[ti].att = NoAttempt
             /\ tasks'[ti].pc = "done"

C7_Examine(ti) ==
    /\ \A p \in tasks'[ti].seen \ tasks[ti].seen :
          tasks'[ti].att[p] =
              IF persons[p].svc /\ PresentRule(p) THEN 1 ELSE 0
    /\ \A p \in Persons \ (tasks'[ti].seen \ tasks[ti].seen) :
          tasks'[ti].att[p] = tasks[ti].att[p]
    /\ (tasks'[ti].pc = "done" /\ ~tasks'[ti].enq) => tasks'[ti].seen = Persons

C7_Dequeue ==
    (tracker /\ sensor' = "on" /\ sensor # "on") =>
        /\ staged' = <<>>
        /\ Len(tasks') = Len(tasks) + Len(staged)
        /\ \A k \in 1..Len(staged) :
              /\ tasks'[Len(tasks) + k].kind = "drain"
              /\ tasks'[Len(tasks) + k].pc = "start"
              /\ tasks'[Len(tasks) + k].data = staged[k]

C7_StagedDelivery ==
    [][/\ C7_Dequeue
       /\ \A ti \in TaskIds :
             tasks'[ti] # tasks[ti] => (C7_Enqueue(ti) /\ C7_Examine(ti))]_vars

\* C7 witness: a drained request has been dispatched to a person whom the
\* 'present' rule did not select when the request was staged.
C7_Witness ==
    \E ti \in TaskIds, p \in Persons :
        /\ tasks[ti].kind = "drain" /\ IsDone(ti)
        /\ tasks[ti].att[p] = 1
        /\ tasks[tasks[ti].data.rid].enq
        /\ p \notin tasks[tasks[ti].data.rid].snap

\* C11 as stated: a person without home state and without numeric
\* proximity is selected by send_to_absent and never by send_to_present or
\* send_to_nearest.
MissingData(p) == homeState[p] = "none" /\ proxState[p].k # "num"

C11_MissingExcluded ==
    \A ti \in TaskIds :
        \A p \in tasks[ti].seen :
            MissingData(p) =>
                /\ tasks[ti].mode \in {"present", "nearest"} => p \notin tasks[ti].sel
                /\ tasks[ti].mode = "absent" => p \in tasks[ti].sel

\* C11 amended: such a person counts as not home and 9999 away, and the
\* handler examines every person to its end.  The person is selected by
\* send_to_absent always, by send_to_present exactly when the threshold is
\* at least 9999, and by send_to_nearest exactly when 9999 is within the
\* threshold of the minimum proximity (as when nobody has a numeric
\* proximity and the threshold is not negative).
C11_MissingData ==
    \A ti \in TaskIds :
        /\ \A p \in tasks[ti].seen :
              MissingData(p) =>
                  /\ tasks[ti].mode = "absent" => p \in tasks[ti].sel
                  /\ tasks[ti].mode = "present" =>
                        (p \in tasks[ti].sel <=> threshold >= 9999)
                  /\ tasks[ti].mode = "nearest" =>
                        (p \in tasks[ti].sel <=> 9999 <= MinProximity + threshold)
        /\ (IsDone(ti) /\ tasks[ti].mode \in {"present", "absent", "nearest"})
              => tasks[ti].seen = Persons

\* C11 witness: a finished send_to_nearest request, default threshold, that
\* left out a person whose proximity is not a number and went to the other.
C11_Witness ==
    \E ti \in TaskIds, p \in Persons, q \in Persons :
        /\ IsDone(ti) /\ tasks[ti].mode = "nearest"
        /\ threshold = DEFAULT_THRESHOLD
        /\ MissingData(p) /\ proxState[p].k = "text" /\ p \notin tasks[ti].sel
        /\ tasks[ti].att[q] = 1

\* C12: a request without an action causes no per-person dispatch, stages
\* nothing and registers no watch, whatever else it carries.
C12_NoActionNoEffect ==
    \A ti \in TaskIds :
        (tasks[ti].kind = "notify" /\ tasks[ti].data.action = "") =>
            /\ tasks[ti].att = NoAttempt
            /\ ~tasks[ti].enq
            /\ tasks[ti].made = {}

\* C13: a request with the persistent flag delivers exactly one persistent
\* notice, whatever its action, however many persons it selected and
\* whether or not it was staged (its later drain delivers none); a request
\* without the flag delivers none.
C13_OneNotice ==
    \A ti \in TaskIds :
        /\ tasks[ti].notice <= 1
        /\ tasks[ti].kind # "notify" => tasks[ti].notice = 0
        /\ ~tasks[ti].data.persistent => tasks[ti].notice = 0
        /\ (tasks[ti].kind = "notify" /\ IsDone(ti)) =>
              tasks[ti].notice = IF tasks[ti].data.persistent THEN 1 ELSE 0

\* C13 witness: a persistent send_when_present request was staged and
\* delivered its notice, and its drain has finished after dispatching.
C13_Witness ==
    \E n \in TaskIds, d \in TaskIds :
        /\ tasks[n].kind = "notify" /\ tasks[n].enq /\ IsDone(n)
        /\ tasks[n].data.persistent /\ tasks[n].notice = 1
        /\ tasks[d].kind = "drain" /\ tasks[d].data.rid = n /\ IsDone(d)
        /\ Dispatched(d) # {} /\ tasks[d].notice = 0

\* C15 as stated: a send_to_<name> request dispatches to the one person
\* whose name is <name>, and to nobody when there is no such person.
IsNamed(ti) ==
    tasks[ti].kind = "notify" /\ tasks[ti].data.action \in {"send_to_ann", "send_to_zoe"}

Addressed(ti) ==
    {p \in Persons : persons[p].name =
        (IF tasks[ti].data.action = "send_to_ann" THEN "ann" ELSE "zoe")}

C15_NamedSingle ==
    \A ti \in TaskIds :
        (IsNamed(ti) /\ IsDone(ti)) =>
            IF Addressed(ti) = {} THEN Dispatched(ti) = {}
            ELSE \E p \in Addressed(ti) : Dispatched(ti) = {p}

\* C15 amended: a send_to_<name> request is handed to every person whose
\* name is <name>, dispatches once to each of them that has a notification
\* channel and to nobody else, and runs to its end; with no such person, or
\* none with a channel, there is no dispatch call.
C15_NamedDispatch ==
    \A ti \in TaskIds :
        IsNamed(ti) =>
            /\ tasks[ti].sel = tasks[ti].seen \cap Addressed(ti)
            /\ \A p \in Persons :
                  tasks[ti].att[p] =
                      IF p \in tasks[ti].seen \cap Addressed(ti) /\ persons[p].svc
                      THEN 1 ELSE 0
            /\ IsDone(ti) => tasks[ti].seen = Persons

\* C15 witness: a finished send_to_ann request went to ann and not to bob,
\* who has a channel, and a finished send_to_zoe request went to nobody.
C15_Witness ==
    \E a \in TaskIds, z \in TaskIds :
        /\ IsDone(a) /\ tasks[a].data.action = "send_to_ann"
        /\ Dispatched(a) = {1} /\ persons[2].svc /\ persons[2].name = "bob"
        /\ IsDone(z) /\ tasks[z].data.action = "send_to_zoe"
        /\ tasks[z].seen = Persons /\ Dispatched(z) = {}

\* C14: stop() always runs to its end: whichever unsubscribe calls raise,
\* the listener list and the registry are empty afterwards, and every
\* listener of the list and every watch of the registry whose remove() did
\* not raise is released.
StopStep ==
    /\ lifecycle # "new" /\ lifecycle' = "stopped"
    /\ tasks' = tasks /\ sensor' = sensor

C14_StopCompletes ==
    [][StopStep =>
          /\ listeners' = <<>>
          /\ DOMAIN watchers' = {}
          /\ (listeners # <<>> /\ ~raised'.tracker) => ~tracker'
          /\ \A g \in DOMAIN watchers :
                watchers[g] \notin raised'.watch =>
                    watchers[g] \notin {w.id : w \in subs'}]_vars

\* C14 witness: the manager is stopped, the remove() of the home tracker
\* raised and left it live, and the watch a request had registered is
\* released all the same.
C14_Witness ==
    /\ lifecycle = "stopped" /\ raised.tracker /\ tracker
    /\ listeners = <<>> /\ DOMAIN watchers = {}
    /\ \E ti \in TaskIds :
          /\ IsDone(ti) /\ tasks[ti].made # {}
          /\ tasks[ti].made \cap LiveIds = {}

\* C16: the watches of a request are registered only after the request was
\* handed to delivery: while a request waits in the staging queue it has
\* registered no watch.
C16_WatchAfterDelivery ==
    \A ti \in TaskIds :
        (tasks[ti].kind = "notify" /\ tasks[ti].enq
           /\ InQueue(tasks[ti].data.rid) > 0) => tasks[ti].made = {}

\* C20: a step of _clear_notifications(T), whatever started it, leaves the
\* staging queue, the registry entries and the subscriptions of every other
\* tag as they are and adds no entry; a transition of the home-occupancy
\* sensor to a state other than 'on' creates no coroutine and leaves the
\* queue and the registry as they are; and a transition to 'on' hands every
\* staged request, whatever its tag, to _send_to_present.
OtherTags(ws, tag) == {w \in ws : w.tag # tag}

ClearFrame(ti) ==
    (tasks[ti].kind \in ClearKinds /\ tasks'[ti] # tasks[ti]) =>
        /\ staged' = staged
        /\ DOMAIN watchers' \subseteq DOMAIN watchers
        /\ \A g \in DOMAIN watchers \ {tasks[ti].data.tag} :
              g \in DOMAIN watchers' /\ watchers'[g] = watchers[g]
        /\ OtherTags(subs', tasks[ti].data.tag) = OtherTags(subs, tasks[ti].data.tag)

HomeFrame ==
    /\ (sensor' # sensor /\ sensor' # "on") =>
          /\ tasks' = tasks /\ staged' = staged
          /\ watchers' = watchers /\ subs' = subs
    /\ (tracker /\ sensor' # sensor /\ sensor' = "on") =>
          /\ staged' = <<>>
          /\ Len(tasks') = Len(tasks) + Len(staged)
          /\ \A k \in 1..Len(staged) :
                /\ tasks'[Len(tasks) + k].kind = "drain"
                /\ tasks'[Len(tasks) + k].data = staged[k]
          /\ watchers' = watchers /\ subs' = subs

C20_ClearAndHomeFrame ==
    [][HomeFrame /\ \A ti \in TaskIds : ClearFrame(ti)]_vars

\* C20 witness: a clear of tag door has finished while a request carrying
\* that tag is still in the staging queue and the watch of tag gate is
\* still registered and live.
C20_Witness ==
    \E c \in TaskIds :
        /\ tasks[c].kind \in ClearKinds /\ IsDone(c)
        /\ tasks[c].data.tag = "door" /\ Dispatched(c) # {}
        /\ \E k \in 1..Len(staged) : staged[k].tag = "door"
        /\ "gate" \in DOMAIN watchers /\ watchers["gate"] \in LiveIds

\* C17: a transition of a watched entity starts one clear for a tag whose
\* Watch is registered, and none for a tag whose Watch has been removed.
NewTasks == {k \in 1..Len(tasks') : k > Len(tasks)}

C17_WatchClearsOnce ==
    [][\A k \in NewTasks :
          tasks'[k].kind = "until" =>
              /\ tasks'[k].data.tag \in DOMAIN watchers
              /\ \A j \in NewTasks :
                    (tasks'[j].kind = "until"
                       /\ tasks'[j].data.tag = tasks'[k].data.tag) => j = k]_vars

\* C18: a clear created before a request of the same tag never removes the
\* watch that request registers, and once a request and a discard or
\* acknowledgement created after it have both finished, the registry does
\* not hold the watch of that request.
SameTag(n, c) ==
    /\ tasks[n].kind = "notify" /\ tasks[c].kind \in ClearKinds
    /\ tasks[n].data.tag = tasks[c].data.tag

C18_NotStolen ==
    \A n \in TaskIds, c \in TaskIds :
        (SameTag(n, c) /\ c < n) => tasks[c].popped \notin tasks[n].made

C18_NotLeftBehind ==
    \A n \in TaskIds, c \in TaskIds :
        (SameTag(n, c) /\ n < c /\ tasks[c].kind \in {"discard", "ack"}
           /\ IsDone(n) /\ IsDone(c)) => tasks[n].made \cap RegistryIds = {}

C18_NoWatchLostOrStolen == C18_NotStolen /\ C18_NotLeftBehind

\* C19: while the manager is started the staging queue is empty whenever
\* the home-occupancy sensor is 'on', and once the manager is stopped
\* nothing is appended to the queue.
C19_EmptyWhenOn ==
    (lifecycle = "started" /\ sensor = "on") => staged = <<>>

C19_NoAppendAfterStop ==
    lifecycle = "stopped" => Len(staged') <= Len(staged)

C19_QueueDiscipline == [](C19_EmptyWhenOn) /\ [][C19_NoAppendAfterStop]_vars

====
